---- MODULE Spec2Model ----
(***************************************************************************)
(* Model of the seml hydra integration: the lifecycle observation shim     *)
(* seml_observe_hydra (seml/hydra.py, seml/hydra/utils.py), the queueing   *)
(* pipeline (seml/queuing.py) and the resolution of configurations by      *)
(* hydra (seml/hydra/config.py).                                           *)
(*                                                                         *)
(* Python objects are records tagged with a "type" field, so that Python's *)
(* == between objects of different types is plain (false) equality here.   *)
(***************************************************************************)
EXTENDS Integers, Sequences, FiniteSets, TLC

VARIABLES
    \* ---- seml_observe_hydra: closure state (survives invocations) ----
    observers,          \* the nonlocal `observers` of make_decorator
    \* ---- seml_observe_hydra: one invocation of decorator(cfg) ----
    pc,                 \* position inside decorator(cfg)
    cfg,                \* the argument of the invocation
    run,                \* result of collection.find_one
    failed_observers,   \* the local list failed_observers
    idx,                \* position of the running `for observer in observers`
    result,             \* the local `result`
    exc,                \* the exception bound by the active except clause
    pending,            \* what the try statement is about to deliver
    outcome,            \* what decorator(cfg) delivered to its caller
    \* ---- observation of the environment (history) ----
    calls,              \* event callbacks invoked in this invocation, in order
    joins,              \* observers whose join() was invoked, in order
    funcOutcome,        \* how func(cfg) ended, in call order
    warnings,           \* logging.warn / logging.warning calls of the invocation
    lookups,            \* collection.find_one calls of the invocation
    created,            \* observers built by create_mongodb_observer, ever
    atEntry,            \* observers and created as the invocation found them
    argument,           \* the `observers` argument seml_observe_hydra received
    invocations,        \* number of invocations of decorator so far
    \* ---- queueing pipeline ----
    collection,         \* the documents of the MongoDB collection, in insertion order
    SLURM_DEFAULT,      \* the process-global SETTINGS.SLURM_DEFAULT
    queueCalls,         \* number of queue_experiments calls so far
    lastCall,           \* arguments, Slurm options and effect of the latest queue_experiments call
    allChecked,         \* every call so far had force_duplicates=False, no_hash=False
    \* ---- resolution of configurations by hydra ----
    executable,         \* what the experiment script at the path `executable` does
    seml_configs,       \* the argument `configs` of resolve_hydra_configs
    config_dir,         \* the hydra configuration directory of the experiment
    hydra_main,         \* the attribute `main` of the module hydra in this process
    hydraCalls,         \* number of detect_hydra_arguments_from_main_decorator calls in this process
    detectCall,         \* arguments and effect of the latest detect_hydra_arguments_from_main_decorator call
    resolveCall,        \* arguments and effect of the latest resolve_hydra_configs call
    \* ---- experiment_set_hydra_config and experiment_set_wandb ----
    setterCall,         \* arguments and effect of the latest call of one of the two
    \* ---- two concurrent calls of queue_configs ----
    racePc,             \* position of each of the two calls inside queue_configs
    raceConfigs,        \* the argument `configs` of each call
    local_start_id,     \* the local start_id of each call
    local_batch_id,     \* the local batch_id of each call
    raceOutcome         \* what each call delivered

shimVars == <<observers, pc, cfg, run, failed_observers, idx, result, exc,
              pending, outcome, calls, joins, funcOutcome, warnings, lookups,
              created, atEntry, argument, invocations>>

queueVars == <<collection, SLURM_DEFAULT, queueCalls, lastCall, allChecked>>

hydraVars == <<executable, seml_configs, config_dir,
               hydra_main, hydraCalls, detectCall, resolveCall>>

setterVars == <<setterCall>>

raceVars == <<racePc, raceConfigs, local_start_id, local_batch_id, raceOutcome>>

vars == <<shimVars, queueVars, hydraVars, setterVars, raceVars>>

-----------------------------------------------------------------------------
(* Bounds *)

MaxInvocations == 2
MaxObservers == 2
MaxBatch == 2
MaxQueueCalls == 2
MaxHydraCalls == 2
MaxConfigs == 2
MaxCount == 2

-----------------------------------------------------------------------------
(* Python values *)

\* the two processes that call queue_configs concurrently
Callers == {1, 2}

None == [type |-> "NoneType"]

PyStr(s) == [type |-> "str", value |-> s]

PyList(items) == [type |-> "list", items |-> items]

\* `x in seq` for a Python list: some element compares equal to x
PyIn(x, seq) == \E i \in 1..Len(seq) : seq[i] = x

Observer(kind, name) ==
    [type |-> "observer", kind |-> kind, name |-> name,
     db_collection |-> "-", overwrite |-> "-"]

create_mongodb_observer(db_collection, overwrite) ==
    [type |-> "observer", kind |-> "MongoObserver", name |-> "default",
     db_collection |-> db_collection, overwrite |-> overwrite]

isinstance_MongoObserver(observer) == observer.kind = "MongoObserver"

\* observers a caller can hand to seml_observe_hydra(observers=[...])
CallerObservers ==
    {Observer("Observer", "o1"), Observer("Observer", "o2"),
     Observer("MongoObserver", "m1")}

RECURSIVE SeqsUpTo(_, _)
SeqsUpTo(S, n) ==
    IF n = 0 THEN {<<>>}
    ELSE LET shorter == SeqsUpTo(S, n - 1)
         IN  shorter \cup {Append(s, e) : s \in shorter, e \in S}

Distinct(s) == \A i, j \in 1..Len(s) : i # j => s[i] # s[j]

\* the `observers` argument: None, or a list of distinct observer objects
ObserverArguments ==
    {None} \cup {PyList(s) : s \in {t \in SeqsUpTo(CallerObservers, MaxObservers) : Distinct(t)}}

\* cfg as far as decorator reads it: whether it has a 'seml' entry, and
\* cfg.seml (None, or a SemlConfig with overwrite and db_collection)
SemlConfig(overwrite, db_collection) ==
    [type |-> "SemlConfig", overwrite |-> overwrite, db_collection |-> db_collection]

\* values of cfg.seml.overwrite (SemlConfig.overwrite: str | None)
RunIds == {PyStr("1"), PyStr("2")}

Configurations ==
    {[type |-> "DictConfig", has_seml |-> FALSE, seml |-> None],
     [type |-> "DictConfig", has_seml |-> TRUE, seml |-> None],
     [type |-> "DictConfig", has_seml |-> TRUE, seml |-> SemlConfig(None, "coll")]}
    \cup
    {[type |-> "DictConfig", has_seml |-> TRUE, seml |-> SemlConfig(id, "coll")] : id \in RunIds}

\* what func(cfg) can do
ResultValues == {"r1", "r2"}
FuncOutcomes ==
    {[kind |-> "return", value |-> v] : v \in ResultValues}
    \cup {[kind |-> "raise", value |-> "KeyboardInterrupt"],
          [kind |-> "raise", value |-> "FuncError"]}

\* what collection.find_one can do: a document, None, or a store failure
RunDocument == [type |-> "dict", seml |-> "present", config |-> "present"]
LookupOutcomes == {"found", "not_found", "error"}

\* SETTINGS.STATES.INTERRUPTED[0]
INTERRUPTED == "INTERRUPTED"

\* what an event callback of an observer can do: return, or raise an Exception
CallOutcomes == {"ok", "ObserverError"}

\* what join() of an observer can do: return, or raise an Exception
JoinOutcomes == {"ok", "JoinError"}


-----------------------------------------------------------------------------
(* Python dicts are functions from keys to values *)

EmptyDict == [k \in {} |-> None]

DictWithout(d, key) == [k \in DOMAIN d \ {key} |-> d[k]]

\* {**d, key: value}
DictWith(d, key, value) ==
    [k \in DOMAIN d \cup {key} |-> IF k = key THEN value ELSE d[k]]

\* d with every entry of `defaults` whose key d lacks
DictWithDefaults(d, defaults) ==
    [k \in DOMAIN d \cup DOMAIN defaults |-> IF k \in DOMAIN d THEN d[k] ELSE defaults[k]]

\* SETTINGS.SLURM_DEFAULT as seml.settings defines it
SLURM_DEFAULT_Settings ==
    [experiments_per_job |-> 1,
     sbatch_options |-> [mem |-> "8G", time |-> "0-08:00"]]

\* a local that no assignment has bound yet
Unbound == "unbound"

Nothing == [kind |-> "none", value |-> "-"]
Return(v) == [kind |-> "return", value |-> v]
Raise(e) == [kind |-> "raise", value |-> e]

-----------------------------------------------------------------------------
(* seml_observe_hydra(observers) -> make_decorator(func) -> decorator(cfg) *)

\* the queueing pipeline before its first call: an empty collection and the
\* settings as a fresh process imports them
QueueIdle ==
    /\ collection = <<>>
    /\ SLURM_DEFAULT = SLURM_DEFAULT_Settings
    /\ queueCalls = 0
    /\ lastCall = None
    /\ allChecked = TRUE

\* the function hydra.main as the module hydra defines it
hydra_main_original == [type |-> "function", name |-> "hydra.main"]

\* the functions of seml/hydra/config.py before their first call
HydraUncalled ==
    /\ hydra_main = hydra_main_original
    /\ hydraCalls = 0
    /\ detectCall = None
    /\ resolveCall = None

\* no experiment is given to the functions of seml/hydra/config.py
HydraIdle ==
    /\ executable = None
    /\ seml_configs = <<>>
    /\ config_dir = None
    /\ hydra_main = hydra_main_original
    /\ hydraCalls = 0
    /\ detectCall = None
    /\ resolveCall = None

\* experiment_set_hydra_config and experiment_set_wandb before their first call
SetterIdle == setterCall = None

\* no concurrent calls of queue_configs
RaceIdle ==
    /\ racePc = [p \in Callers |-> "idle"]
    /\ raceConfigs = [p \in Callers |-> <<>>]
    /\ local_start_id = [p \in Callers |-> None]
    /\ local_batch_id = [p \in Callers |-> None]
    /\ raceOutcome = [p \in Callers |-> Nothing]

ShimInit ==
    /\ QueueIdle
    /\ HydraIdle
    /\ SetterIdle
    /\ RaceIdle
    /\ observers \in ObserverArguments
    /\ argument = observers
    /\ atEntry = [observers |-> observers, created |-> <<>>]
    /\ pc = "idle"
    /\ cfg = None
    /\ run = None
    /\ failed_observers = <<>>
    /\ idx = 1
    /\ result = Unbound
    /\ exc = Unbound
    /\ pending = Nothing
    /\ outcome = Nothing
    /\ calls = <<>>
    /\ joins = <<>>
    /\ funcOutcome = <<>>
    /\ warnings = 0
    /\ lookups = 0
    /\ created = <<>>
    /\ invocations = 0

\* line 53 without its test of cfg.seml.overwrite
UnobservedWithoutIdCheck(c) ==
    \/ ~c.has_seml
    \/ c.seml = None

\* the guard of line 53
Unobserved(c) ==
    \/ ~c.has_seml
    \/ c.seml = None
    \/ c.seml.overwrite = None

\* line 64 with the operands of + exchanged
WithDefaultObserverAppended(obs, c) ==
    obs \o <<create_mongodb_observer(c.seml.db_collection, c.seml.overwrite)>>

\* lines 60-64: the observer list the invocation works with
WithDefaultObserverPrepended(obs, c) ==
    <<create_mongodb_observer(c.seml.db_collection, c.seml.overwrite)>> \o obs

\* the test of line 63 asking for an observer of any kind
NoObserverAtAll(obs) ==
    Len(obs) = 0

\* the test of line 63
NoMongoObserver(obs) ==
    ~(\E i \in 1..Len(obs) : isinstance_MongoObserver(obs[i]))

EnsureMongoObserver(obs, c) ==
    IF NoMongoObserver(obs)
    THEN WithDefaultObserverPrepended(obs, c)
    ELSE obs

ObserversOrEmpty(o) == IF o = None THEN <<>> ELSE o.items

\* decorator(cfg) is entered: lines 53-71
Enter(c, lookup) ==
    /\ UNCHANGED <<queueVars, hydraVars, setterVars, raceVars>>
    /\ pc \in {"idle", "done"}
    /\ invocations < MaxInvocations
    /\ invocations' = invocations + 1
    /\ cfg' = c
    /\ atEntry' = [observers |-> observers, created |-> created]
    /\ UNCHANGED argument
    /\ calls' = <<>>
    /\ joins' = <<>>
    /\ funcOutcome' = <<>>
    /\ failed_observers' = <<>>
    /\ idx' = 1
    /\ result' = Unbound
    /\ exc' = Unbound
    /\ pending' = Nothing
    /\ IF Unobserved(c)
       THEN /\ warnings' = 1
            /\ lookups' = 0
            /\ pc' = "func_unobserved"
            /\ outcome' = Nothing
            /\ UNCHANGED <<observers, run, created>>
       ELSE LET before == ObserversOrEmpty(observers)
                after  == EnsureMongoObserver(before, c)
            IN  /\ observers' = PyList(after)
                /\ created' = IF NoMongoObserver(before)
                              THEN Append(created, create_mongodb_observer(
                                       c.seml.db_collection, c.seml.overwrite))
                              ELSE created
                /\ warnings' = 0
                /\ lookups' = 1
                /\ IF lookup = "error"
                   THEN /\ run' = run
                        /\ outcome' = Raise("StoreError")
                        /\ pc' = "done"
                   ELSE /\ run' = IF lookup = "found" THEN RunDocument ELSE None
                        /\ outcome' = Nothing
                        /\ pc' = "started_event"

\* lines 55-56
FuncUnobserved(o) ==
    /\ UNCHANGED <<queueVars, hydraVars, setterVars, raceVars>>
    /\ pc = "func_unobserved"
    /\ funcOutcome' = Append(funcOutcome, o)
    /\ result' = IF o.kind = "return" THEN o.value ELSE result
    /\ outcome' = o
    /\ pc' = "done"
    /\ UNCHANGED <<observers, cfg, run, failed_observers, idx, exc, pending,
                   calls, joins, warnings, lookups, created, atEntry, argument,
                   invocations>>

\* the test of line 74
AlreadyFailed(observer) == PyIn(observers, failed_observers)

\* line 78 with a clause that is too narrow
except_KeyError(raised) == raised \in {"KeyError"}

\* the clause `except Exception` of line 78: does it catch what was raised
except_Exception(raised) == raised \in {"ObserverError", "JoinError"}

\* observer_call_catch_exceptions lets the exception of the callback through
Propagates(observer, does) ==
    /\ ~AlreadyFailed(observer)
    /\ does # "ok"
    /\ ~except_Exception(does)

\* observer_call_catch_exceptions(observer, method, **payload), lines 72-82;
\* `does` is what the observer's callback does when it is invoked
observer_call_catch_exceptions(observer, method, payload, does) ==
    IF AlreadyFailed(observer)
    THEN UNCHANGED <<calls, failed_observers, warnings>>
    ELSE /\ calls' = Append(calls, [observer |-> observer, method |-> method,
                                    payload |-> payload, raised |-> (does # "ok")])
         /\ IF does # "ok" /\ except_Exception(does)
            THEN /\ failed_observers' = Append(failed_observers, observer)
                 /\ warnings' = warnings + 1
            ELSE UNCHANGED <<failed_observers, warnings>>

\* lines 116 and 125 with `except BaseException` placed first
HandlerBaseExceptionFirst(e) == "failed_event"

\* the except clauses of lines 116 and 125, tried in this order
HandlerFor(e) ==
    IF e = "KeyboardInterrupt" THEN "interrupted_event" ELSE "failed_event"

\* one iteration of the loop of lines 86-102
StartedCall(does) ==
    /\ UNCHANGED <<queueVars, hydraVars, setterVars, raceVars>>
    /\ pc = "started_event"
    /\ idx <= Len(observers.items)
    /\ IF run = None
       THEN \* run['seml'] on None: TypeError, raised inside the try
            /\ exc' = "TypeError"
            /\ pc' = HandlerFor("TypeError")
            /\ idx' = 1
            /\ UNCHANGED <<calls, failed_observers, warnings>>
       ELSE /\ observer_call_catch_exceptions(
                   observers.items[idx], "started_event",
                   [_id |-> cfg.seml.overwrite, config |-> run.config], does)
            /\ IF Propagates(observers.items[idx], does)
               THEN /\ exc' = does
                    /\ pc' = HandlerFor(does)
                    /\ idx' = 1
               ELSE /\ idx' = idx + 1
                    /\ UNCHANGED <<exc, pc>>
    /\ UNCHANGED <<observers, cfg, run, result, pending, outcome, joins,
                   funcOutcome, lookups, created, atEntry, argument,
                   invocations>>

\* line 104
CallFunc(o) ==
    /\ UNCHANGED <<queueVars, hydraVars, setterVars, raceVars>>
    /\ pc = "started_event"
    /\ idx > Len(observers.items)
    /\ funcOutcome' = Append(funcOutcome, o)
    /\ idx' = 1
    /\ IF o.kind = "return"
       THEN /\ result' = o.value
            /\ pc' = "completed_event"
            /\ UNCHANGED exc
       ELSE /\ exc' = o.value
            /\ pc' = HandlerFor(o.value)
            /\ UNCHANGED result
    /\ UNCHANGED <<observers, cfg, run, failed_observers, pending, outcome,
                   calls, joins, warnings, lookups, created, atEntry, argument,
                   invocations>>

\* line 110 with the method name of line 89 copied
CompletedMethodCopied == "started_event"

\* the method name the loop of lines 107-113 passes
CompletedMethod == "completed_event"

\* the event method and payload of each terminal dispatch loop
Method(p) == IF p = "completed_event" THEN CompletedMethod ELSE p

Payload(p) ==
    CASE p = "completed_event"   -> [result |-> result]
      [] p = "interrupted_event" -> [status |-> INTERRUPTED]
      [] p = "failed_event"      -> [fail_trace |-> exc]

\* what follows each terminal loop: `return result` (114) or `raise e` (124, 133)
AfterLoop(p) ==
    IF p = "completed_event" THEN Return(result) ELSE Raise(exc)

\* one iteration of the loops of lines 107-113, 117-123, 126-132
TerminalCall(does) ==
    /\ UNCHANGED <<queueVars, hydraVars, setterVars, raceVars>>
    /\ pc \in {"completed_event", "interrupted_event", "failed_event"}
    /\ idx <= Len(observers.items)
    /\ observer_call_catch_exceptions(observers.items[idx], Method(pc), Payload(pc), does)
    /\ IF Propagates(observers.items[idx], does)
       THEN IF pc = "completed_event"
            THEN \* still inside the try: the except clauses apply
                 /\ exc' = does
                 /\ pc' = HandlerFor(does)
                 /\ idx' = 1
                 /\ UNCHANGED pending
            ELSE \* inside an except clause: only the finally clause is left
                 /\ pending' = Raise(does)
                 /\ pc' = "join"
                 /\ idx' = 1
                 /\ UNCHANGED exc
       ELSE /\ idx' = idx + 1
            /\ UNCHANGED <<pc, exc, pending>>
    /\ UNCHANGED <<observers, cfg, run, result, outcome, joins, funcOutcome,
                   lookups, created, atEntry, argument, invocations>>

\* lines 114, 124, 133: the try statement hands over to the finally clause
TerminalDone ==
    /\ UNCHANGED <<queueVars, hydraVars, setterVars, raceVars>>
    /\ pc \in {"completed_event", "interrupted_event", "failed_event"}
    /\ idx > Len(observers.items)
    /\ pending' = AfterLoop(pc)
    /\ pc' = "join"
    /\ idx' = 1
    /\ UNCHANGED <<observers, cfg, run, failed_observers, result, exc, outcome,
                   calls, joins, funcOutcome, warnings, lookups, created,
                   atEntry, argument, invocations>>

\* one iteration of the loop of lines 136-137; an exception of join() leaves
\* the finally clause and replaces what the try statement was delivering
JoinCall(does) ==
    /\ UNCHANGED <<queueVars, hydraVars, setterVars, raceVars>>
    /\ pc = "join"
    /\ idx <= Len(observers.items)
    /\ joins' = Append(joins, observers.items[idx])
    /\ IF does # "ok"
       THEN /\ outcome' = Raise(does)
            /\ pc' = "done"
            /\ UNCHANGED idx
       ELSE /\ idx' = idx + 1
            /\ UNCHANGED <<outcome, pc>>
    /\ UNCHANGED <<observers, cfg, run, failed_observers, result, exc, pending,
                   calls, funcOutcome, warnings, lookups, created, atEntry,
                   argument, invocations>>

\* the finally clause is through: decorator returns or re-raises
Exit ==
    /\ UNCHANGED <<queueVars, hydraVars, setterVars, raceVars>>
    /\ pc = "join"
    /\ idx > Len(observers.items)
    /\ outcome' = pending
    /\ pc' = "done"
    /\ UNCHANGED <<observers, cfg, run, failed_observers, idx, result, exc,
                   pending, calls, joins, funcOutcome, warnings, lookups,
                   created, atEntry, argument, invocations>>

ShimNext ==
    \/ \E c \in Configurations, lookup \in LookupOutcomes : Enter(c, lookup)
    \/ \E o \in FuncOutcomes : FuncUnobserved(o)
    \/ \E does \in CallOutcomes : StartedCall(does)
    \/ \E o \in FuncOutcomes : CallFunc(o)
    \/ \E does \in CallOutcomes : TerminalCall(does)
    \/ TerminalDone
    \/ \E does \in JoinOutcomes : JoinCall(does)
    \/ Exit

SpecShim == ShimInit /\ [][ShimNext]_vars

-----------------------------------------------------------------------------
(* Properties of the lifecycle observation shim *)

TerminalEvents == {"completed_event", "interrupted_event", "failed_event"}

Events == {"started_event"} \cup TerminalEvents

\* the configuration carries no run to observe (stated from the documentation:
\* "If the configuration is not present, the experiment will not be observed")
NoSemlContext(c) ==
    IF ~c.has_seml THEN TRUE
    ELSE IF c.seml = None THEN TRUE
    ELSE c.seml.overwrite = None

ObservedInvocation == pc # "idle" /\ ~NoSemlContext(cfg)

Received(observer, method) ==
    \E i \in 1..Len(calls) : calls[i].observer = observer /\ calls[i].method = method

\* the observers that received `method`, in the order they received it
ObserversCalled(method) ==
    LET sel == SelectSeq(calls, LAMBDA c : c.method = method)
    IN  [i \in 1..Len(sel) |-> sel[i].observer]

IsPrefix(s, t) == Len(s) <= Len(t) /\ \A i \in 1..Len(s) : s[i] = t[i]

\* the terminal event and payload that belong to an outcome of func
TerminalFor(o) ==
    IF o.kind = "return" THEN "completed_event"
    ELSE IF o.value = "KeyboardInterrupt" THEN "interrupted_event"
    ELSE "failed_event"

PayloadFor(o) ==
    IF o.kind = "return" THEN [result |-> o.value]
    ELSE IF o.value = "KeyboardInterrupt" THEN [status |-> "INTERRUPTED"]
    ELSE [fail_trace |-> o.value]

\* C1: in an observed invocation no terminal event (completed, interrupted,
\* failed) reaches an observer unless the started round went to every observer
\* before, and all terminal events of the invocation are of one kind.
C1_StartedBeforeTerminal ==
    /\ \A i \in 1..Len(calls) :
          calls[i].method \in TerminalEvents =>
             \A k \in 1..Len(observers.items) :
                \E j \in 1..(i - 1) :
                   /\ calls[j].method = "started_event"
                   /\ calls[j].observer = observers.items[k]
    /\ \A i, j \in 1..Len(calls) :
          (calls[i].method \in TerminalEvents /\ calls[j].method \in TerminalEvents)
             => calls[i].method = calls[j].method

\* C2: an observer that raised in an event callback receives no later event
\* callback in the same invocation.
C2_FailedObserverSkipped ==
    \A i, j \in 1..Len(calls) :
       (i < j /\ calls[i].raised) => calls[j].observer # calls[i].observer

\* C3: an exception an observer raises in an event callback blocks nothing:
\* once the round of that event is over every observer of the list has
\* received the event, func is invoked after a started round in which an
\* observer raised, and the terminal events are those of func's outcome.
C3_ObserverFailureIsolated ==
    \A i \in 1..Len(calls) :
       calls[i].raised =>
          /\ \/ (pc = calls[i].method /\ idx <= Len(observers.items))
             \/ \A k \in 1..Len(observers.items) :
                   Received(observers.items[k], calls[i].method)
          /\ (calls[i].method = "started_event" /\ pc # "started_event")
                => Len(funcOutcome) = 1
          /\ (pc \in {"join", "done"} /\ Len(funcOutcome) = 1)
                => /\ \E j \in 1..Len(calls) : calls[j].method = TerminalFor(funcOutcome[1])
                   /\ \A j \in 1..Len(calls) :
                         calls[j].method \in TerminalEvents
                            => calls[j].method = TerminalFor(funcOutcome[1])

C3_Witness ==
    /\ pc = "done"
    /\ Len(funcOutcome) = 1
    /\ \E i, j \in 1..Len(calls) :
          /\ i < j
          /\ calls[i].raised
          /\ calls[i].method = "started_event"
          /\ calls[j].method = "started_event"
          /\ calls[j].observer # calls[i].observer
    /\ \E j \in 1..Len(calls) : calls[j].method = TerminalFor(funcOutcome[1])

\* C4: when an observed invocation that entered the try statement is over,
\* join() has been called exactly once on every observer of the list, in
\* whatever way the observers behave in their callbacks and in join().
C4_JoinedExactlyOnce ==
    (pc = "done" /\ ObservedInvocation /\ outcome # Raise("StoreError"))
       => joins = observers.items

\* C5: the outcome of the decorated function is the outcome of func: func is
\* called, and what it returned is returned, what it raised is raised.
C5_OutcomeIsFuncOutcome ==
    pc = "done" => (Len(funcOutcome) = 1 /\ outcome = funcOutcome[1])

\* C6: the way func ends selects the terminal event: completed with the return
\* value after a normal return, interrupted with the INTERRUPTED status after a
\* KeyboardInterrupt, failed with the trace after any other exception; no
\* other terminal event is dispatched, every observer that has not raised
\* receives it, and the try statement then returns the value or re-raises
\* the very exception of func.
C6_TerminalEventByOutcome ==
    (pc \in {"join", "done"} /\ ObservedInvocation /\ Len(funcOutcome) = 1) =>
        LET o == funcOutcome[1]
        IN  /\ \A i \in 1..Len(calls) :
                  calls[i].method \in TerminalEvents
                     => /\ calls[i].method = TerminalFor(o)
                        /\ calls[i].payload = PayloadFor(o)
            /\ \A k \in 1..Len(observers.items) :
                  \/ Received(observers.items[k], TerminalFor(o))
                  \/ \E i \in 1..Len(calls) :
                        calls[i].observer = observers.items[k] /\ calls[i].raised
            /\ pending = o

C6_Witness ==
    /\ pc = "done"
    /\ ObservedInvocation
    /\ Len(funcOutcome) = 1
    /\ funcOutcome[1] = Raise("KeyboardInterrupt")
    /\ \E i \in 1..Len(calls) :
          calls[i].method = "interrupted_event" /\ calls[i].payload = [status |-> "INTERRUPTED"]
    /\ outcome = Raise("KeyboardInterrupt")

\* C7: without a run to observe the decorator calls func once and passes its
\* outcome on; it creates no observer, makes no store lookup, invokes no
\* callback and no join, and logs exactly one warning.
C7_UnobservedRun ==
    (pc # "idle" /\ NoSemlContext(cfg)) =>
        /\ calls = <<>>
        /\ joins = <<>>
        /\ lookups = 0
        /\ warnings = 1
        /\ observers = atEntry.observers
        /\ created = atEntry.created
        /\ Len(funcOutcome) <= 1
        /\ pc = "done" => (Len(funcOutcome) = 1 /\ outcome = funcOutcome[1])

C7_Witness ==
    /\ pc = "done"
    /\ cfg.has_seml
    /\ cfg.seml # None
    /\ cfg.seml.overwrite = None
    /\ observers # None
    /\ Len(observers.items) > 0
    /\ Len(funcOutcome) = 1
    /\ outcome = funcOutcome[1]

C9_DefaultObserverLast ==
    \A m \in Events :
       IsPrefix(ObserversCalled(m), ObserversOrEmpty(argument) \o created)

\* C9 (amended): each event goes first to the default reporting observer and
\* then to the caller's observers in the order of the list passed to
\* seml_observe_hydra.
C9_DefaultObserverFirst ==
    \A m \in Events :
       IsPrefix(ObserversCalled(m), created \o ObserversOrEmpty(argument))

C9_Witness ==
    /\ pc = "join"
    /\ Len(created) = 1
    /\ Len(ObserversOrEmpty(argument)) = 2
    /\ ObserversCalled("started_event") = created \o argument.items
    /\ ObserversCalled("completed_event") = created \o argument.items

-----------------------------------------------------------------------------
(* The queueing pipeline: seml/queuing.py *)

\* the configurations generate_configs can produce: flat parameter dicts
GeneratedConfigs ==
    {[a |-> 1], [a |-> 1, b |-> 1]}

\* the slurm part read_config can return: None, or a dict with sbatch_options
SlurmConfigs ==
    {None, [sbatch_options |-> ("--partition" :> "gpu" @@ "mem" :> "16G")]}

PyInt(n) == [type |-> "int", value |-> n]

\* seml.utils.make_hash: a digest of the canonical (key-order independent)
\* form of the configuration; equal configurations have equal digests
make_hash(d) == [type |-> "md5", digest_of |-> d]

\* seml.database.get_max_in_collection: the largest value of the field, None
\* for an empty collection
get_max_in_collection(coll, field) ==
    IF Len(coll) = 0 THEN None
    ELSE PyInt(CHOOSE m \in {coll[i][field] : i \in 1..Len(coll)} :
                  \A i \in 1..Len(coll) : coll[i][field] <= m)

\* seml.config.remove_prepended_dashes on the option names that occur
StripDashes(k) == IF k = "--partition" THEN "partition" ELSE k

remove_prepended_dashes(options) ==
    [k \in {StripDashes(x) : x \in DOMAIN options} |->
        LET x == CHOOSE y \in DOMAIN options : StripDashes(y) = k IN options[x]]

\* collection.find_one({'config_hash': h}) with a field name no document has
find_one_by_wrong_field(coll, h) == FALSE

\* collection.find_one({'config_hash': h}) is not None, line 38
find_one_by_hash(coll, h) ==
    \E i \in 1..Len(coll) : coll[i].config_hash = h

\* collection.find_one({'config.<key>': value, ...}) is not None, lines 40-44
find_one_by_config(coll, d) ==
    \E i \in 1..Len(coll) :
       \A k \in DOMAIN d :
          k \in DOMAIN coll[i].config /\ coll[i].config[k] = d[k]

\* filter_experiments, lines 33-49; a configuration is [id, d]: the position
\* of the object in generation order and the dict it holds
filter_experiments(coll, configurations) ==
    LET filtered[i \in 0..Len(configurations)] ==
            IF i = 0 THEN <<>>
            ELSE LET config == configurations[i]
                     hashed == "config_hash" \in DOMAIN config.d
                     found  == IF hashed
                               THEN find_one_by_hash(coll, config.d.config_hash)
                               ELSE find_one_by_config(coll, config.d)
                     kept   == IF hashed
                               THEN [config EXCEPT !.d = DictWithout(config.d, "config_hash")]
                               ELSE config
                 IN  IF found THEN filtered[i - 1]
                     ELSE Append(filtered[i - 1], kept)
    IN  filtered[Len(configurations)]

\* queue_configs with line 84 lacking its + 1
queue_configs_from_max_id(coll, configs) ==
    IF Len(configs) = 0 THEN coll
    ELSE LET max_id    == get_max_in_collection(coll, "_id")
             start_id  == IF max_id = None THEN 1 ELSE max_id.value
             max_batch == get_max_in_collection(coll, "batch_id")
             batch_id  == IF max_batch = None THEN 1 ELSE max_batch.value + 1
             db_dicts  == [ix \in 1..Len(configs) |->
                              [_id |-> start_id + (ix - 1),
                               batch_id |-> batch_id,
                               status |-> "QUEUED",
                               config |-> configs[ix].d,
                               config_hash |-> make_hash(configs[ix].d)]]
         IN  coll \o db_dicts

\* queue_configs, lines 77-107 (the fields seml, slurm, git and queue_time of
\* the documents are left out); the result is the collection after insert_many
queue_configs(coll, configs) ==
    IF Len(configs) = 0 THEN coll
    ELSE LET max_id    == get_max_in_collection(coll, "_id")
             start_id  == IF max_id = None THEN 1 ELSE max_id.value + 1
             max_batch == get_max_in_collection(coll, "batch_id")
             batch_id  == IF max_batch = None THEN 1 ELSE max_batch.value + 1
             db_dicts  == [ix \in 1..Len(configs) |->
                              [_id |-> start_id + (ix - 1),
                               batch_id |-> batch_id,
                               status |-> "QUEUED",
                               config |-> configs[ix].d,
                               config_hash |-> make_hash(configs[ix].d)]]
         IN  coll \o db_dicts

\* lines 140-150: the Slurm configuration with the defaults as fall-back
WithSlurmDefaults(slurm_config, defaults) ==
    LET given   == IF slurm_config = None
                   THEN [sbatch_options |-> EmptyDict]
                   ELSE slurm_config
        options == DictWithDefaults(given.sbatch_options, defaults.sbatch_options)
        merged  == DictWithDefaults(DictWith(given, "sbatch_options", options),
                                    DictWithout(defaults, "sbatch_options"))
    IN  DictWith(merged, "sbatch_options", remove_prepended_dashes(options))

\* line 175
WithConfigHash(configs) ==
    [i \in 1..Len(configs) |->
        [configs[i] EXCEPT !.d = DictWith(configs[i].d, "config_hash", make_hash(configs[i].d))]]

\* lines 183-187
UniqueByEquality(configs) ==
    LET unique_configs[i \in 0..Len(configs)] ==
            IF i = 0 THEN <<>>
            ELSE IF \E j \in 1..Len(unique_configs[i - 1]) :
                       unique_configs[i - 1][j].d = configs[i].d
                 THEN unique_configs[i - 1]
                 ELSE Append(unique_configs[i - 1], configs[i])
    IN  unique_configs[Len(configs)]

\* lines 190-191 with a dict that keeps the value of the first insertion
UniqueByHashKeepingFirst(configs) ==
    LET configs_dict[i \in 0..Len(configs)] ==
            IF i = 0 THEN <<>>
            ELSE LET prev == configs_dict[i - 1]
                 IN  IF \E j \in 1..Len(prev) :
                           prev[j].d.config_hash = configs[i].d.config_hash
                     THEN prev
                     ELSE Append(prev, configs[i])
    IN  configs_dict[Len(configs)]

\* lines 190-191: a dict keeps the position of the first insertion of a key
\* and the value of the last
UniqueByHash(configs) ==
    LET configs_dict[i \in 0..Len(configs)] ==
            IF i = 0 THEN <<>>
            ELSE LET prev == configs_dict[i - 1]
                     same == {j \in 1..Len(prev) :
                                 prev[j].d.config_hash = configs[i].d.config_hash}
                 IN  IF same # {}
                     THEN [prev EXCEPT ![CHOOSE j \in same : TRUE] = configs[i]]
                     ELSE Append(prev, configs[i])
    IN  configs_dict[Len(configs)]

\* lines 173-191: the configurations after the duplicate removal within the batch
Deduplicated(generated, no_hash) ==
    LET use_hash == ~no_hash
        configs  == IF use_hash THEN WithConfigHash(generated) ELSE generated
    IN  IF ~use_hash THEN UniqueByEquality(configs) ELSE UniqueByHash(configs)

\* lines 173-208: the configurations handed to queue_configs
ConfigsToQueue(coll, generated, force_duplicates, no_hash) ==
    LET use_hash == ~no_hash
        configs  == IF use_hash THEN WithConfigHash(generated) ELSE generated
    IN  IF ~force_duplicates
        THEN filter_experiments(coll, Deduplicated(generated, no_hash))
        ELSE configs

\* the find_one calls of a queue_experiments call: one for each configuration
\* filter_experiments (line 195) is given
FindOneCalls(generated, force_duplicates, no_hash) ==
    IF ~force_duplicates THEN Len(Deduplicated(generated, no_hash)) ELSE 0

\* queue_experiments(db_collection_name, config_file, force_duplicates, no_hash);
\* `slurm_config` and `generated` are what read_config and generate_configs
\* deliver for the config file
queue_experiments(slurm_config, generated, force_duplicates, no_hash) ==
    /\ queueCalls < MaxQueueCalls
    /\ queueCalls' = queueCalls + 1
    /\ allChecked' = (allChecked /\ ~force_duplicates /\ ~no_hash)
    /\ IF "sbatch_options" \notin DOMAIN SLURM_DEFAULT
       THEN \* line 142: KeyError
            /\ lastCall' = [generated |-> generated,
                            force_duplicates |-> force_duplicates,
                            no_hash |-> no_hash,
                            raised |-> "KeyError",
                            slurm |-> None,
                            find_one_calls |-> 0,
                            queued |-> <<>>,
                            before |-> collection]
            /\ UNCHANGED <<collection, SLURM_DEFAULT>>
       ELSE LET slurm   == WithSlurmDefaults(slurm_config, SLURM_DEFAULT)
                objects == [i \in 1..Len(generated) |-> [id |-> i, d |-> generated[i]]]
                configs == ConfigsToQueue(collection, objects, force_duplicates, no_hash)
            IN  /\ SLURM_DEFAULT' = DictWithout(SLURM_DEFAULT, "sbatch_options")
                /\ collection' = queue_configs(collection, configs)
                /\ lastCall' = [generated |-> generated,
                                force_duplicates |-> force_duplicates,
                                no_hash |-> no_hash,
                                raised |-> "none",
                                slurm |-> slurm,
                                find_one_calls |-> FindOneCalls(objects, force_duplicates, no_hash),
                                queued |-> configs,
                                before |-> collection]
    /\ UNCHANGED <<shimVars, hydraVars, setterVars, raceVars>>

\* a later queue_experiments call made from a new process, which imports
\* seml.settings anew
NewProcess ==
    /\ SLURM_DEFAULT # SLURM_DEFAULT_Settings
    /\ SLURM_DEFAULT' = SLURM_DEFAULT_Settings
    /\ UNCHANGED <<collection, queueCalls, lastCall, allChecked>>
    /\ UNCHANGED <<shimVars, hydraVars, setterVars, raceVars>>

ShimIdle ==
    /\ observers = None
    /\ argument = None
    /\ atEntry = [observers |-> None, created |-> <<>>]
    /\ pc = "idle"
    /\ cfg = None
    /\ run = None
    /\ failed_observers = <<>>
    /\ idx = 1
    /\ result = Unbound
    /\ exc = Unbound
    /\ pending = Nothing
    /\ outcome = Nothing
    /\ calls = <<>>
    /\ joins = <<>>
    /\ funcOutcome = <<>>
    /\ warnings = 0
    /\ lookups = 0
    /\ created = <<>>
    /\ invocations = 0

QueueInit == ShimIdle /\ QueueIdle /\ HydraIdle /\ SetterIdle /\ RaceIdle

QueueNext ==
    \/ \E slurm_config \in SlurmConfigs, generated \in SeqsUpTo(GeneratedConfigs, MaxBatch),
          force_duplicates \in BOOLEAN, no_hash \in BOOLEAN :
             queue_experiments(slurm_config, generated, force_duplicates, no_hash)
    \/ NewProcess

SpecQueue == QueueInit /\ [][QueueNext]_vars

-----------------------------------------------------------------------------
(* Properties of the queueing pipeline *)

\* C10: as long as every queue_experiments call was made with duplicate
\* detection and hashing enabled, no two documents of the collection have the
\* same config_hash, and no configuration is stored twice.
C10_NoDuplicateHash ==
    allChecked =>
        \A i, j \in 1..Len(collection) :
           i # j => /\ collection[i].config_hash # collection[j].config_hash
                    /\ collection[i].config # collection[j].config

\* a second successful call met a configuration that is repeated within its
\* batch and was already stored by the first call, and inserted nothing
C10_Witness ==
    /\ allChecked
    /\ queueCalls >= 2
    /\ lastCall # None
    /\ lastCall.raised = "none"
    /\ Len(lastCall.before) > 0
    /\ collection = lastCall.before
    /\ \E i, j \in 1..Len(lastCall.generated) :
          /\ i # j
          /\ lastCall.generated[i] = lastCall.generated[j]
          /\ \E k \in 1..Len(lastCall.before) :
                lastCall.generated[i] = lastCall.before[k].config

\* the positions in generation order of the configurations equal to the i-th
Occurrences(generated, i) ==
    {j \in 1..Len(generated) : generated[j] = generated[i]}

IsFirstOccurrence(generated, i) == \A j \in Occurrences(generated, i) : i <= j

IsLastOccurrence(generated, i) == \A j \in Occurrences(generated, i) : j <= i

DuplicatesRemoved == lastCall # None /\ lastCall.raised = "none" /\ ~lastCall.force_duplicates

MaxField(coll, field) ==
    IF Len(coll) = 0 THEN 0
    ELSE CHOOSE m \in {coll[i][field] : i \in 1..Len(coll)} :
            \A i \in 1..Len(coll) : coll[i][field] <= m

\* C12: queue_configs, given n >= 1 configurations, inserts exactly n documents
\* with the _id values m+1 .. m+n in input order (m the largest _id before, 0
\* for an empty collection), all with batch_id = largest batch_id before + 1
\* and status QUEUED; all _id values of the collection are distinct and a
\* later call uses a greater batch_id than every earlier one.
C12_SequentialIds ==
    /\ (lastCall # None /\ Len(lastCall.queued) >= 1) =>
          LET n == Len(lastCall.queued)
              m == MaxField(lastCall.before, "_id")
              b == MaxField(lastCall.before, "batch_id")
          IN  /\ Len(collection) = Len(lastCall.before) + n
              /\ SubSeq(collection, 1, Len(lastCall.before)) = lastCall.before
              /\ \A ix \in 1..n :
                    LET doc == collection[Len(lastCall.before) + ix]
                    IN  /\ doc._id = m + ix
                        /\ doc.batch_id = b + 1
                        /\ doc.status = "QUEUED"
                        /\ doc.config = lastCall.queued[ix].d
    /\ \A i, j \in 1..Len(collection) :
          i < j => /\ collection[i]._id < collection[j]._id
                   /\ collection[i].batch_id <= collection[j].batch_id

\* a second call added two documents to a collection that was not empty
C12_Witness ==
    /\ lastCall # None
    /\ Len(lastCall.before) >= 1
    /\ Len(lastCall.queued) = 2
    /\ Len(collection) = Len(lastCall.before) + 2
    /\ collection[Len(collection)].batch_id = 2

\* C13: with force_duplicates=True queue_experiments makes no duplicate check
\* (nothing is removed from the batch, find_one is not called) and inserts
\* exactly one document for each generated configuration.
C13_ForcedDuplicatesAllInserted ==
    (lastCall # None /\ lastCall.force_duplicates) =>
        /\ lastCall.find_one_calls = 0
        /\ Len(collection) = Len(lastCall.before) + Len(lastCall.generated)

-----------------------------------------------------------------------------
(* seml/hydra/config.py: detect_hydra_arguments_from_main_decorator *)

\* the function __hydra_main that the code prepended to the script defines in
\* the k-th call (lines 50-51)
hydra_main_sentinel(k) == [type |-> "function", name |-> "__hydra_main", call |-> k]

\* pathlib.Path(p); Path(None) raises TypeError
Path(p) == [type |-> "Path", path |-> p.value]

\* the values a script passes to hydra.main and a caller passes as expected ones
ConfigPaths == {None, PyStr("conf")}
ConfigNames == {PyStr("base")}
VersionBases == {None, PyStr("1.3")}
ExpectedConfigPaths == ConfigPaths \cup {PyStr("other_conf")}
ExpectedConfigNames == ConfigNames \cup {PyStr("other_base")}
ExpectedVersionBases == VersionBases \cup {PyStr("1.1")}

\* what executing an experiment script does before it ends: it calls
\* hydra.main(config_path, config_name, version_base), it reaches its end
\* without that call, or it raises an exception of its own
Scripts ==
    {[kind |-> "calls_hydra_main", args |-> <<cp, cn, vb>>] :
        cp \in ConfigPaths, cn \in ConfigNames, vb \in VersionBases}
    \cup {[kind |-> "finishes", args |-> <<>>], [kind |-> "raises", args |-> <<>>]}

HydraDetectArgumentsFromDecoratorException(args) ==
    [type |-> "_HydraDetectArgumentsFromDecoratorException", args |-> args]

ScriptException == [type |-> "ImportError", raised_by |-> "script"]

DidNotCallHydraMain == [type |-> "RuntimeError", message |-> "did not call hydra.main"]

ConfigError(field, expected, detected) ==
    [type |-> "ConfigError", field |-> field, expected |-> expected, detected |-> detected]

TypeError == [type |-> "TypeError"]

\* line 56: the exception exec(content) raises, None if it returns; hydra.main
\* is the sentinel from line 53 of the content on
exec(script) ==
    CASE script.kind = "calls_hydra_main" ->
             HydraDetectArgumentsFromDecoratorException(script.args)
      [] script.kind = "finishes" -> None
      [] script.kind = "raises" -> ScriptException

\* lines 55-58 with every exception of the script turned into the RuntimeError
PropagatedAsRuntimeError(signal) ==
    IF signal = None THEN DidNotCallHydraMain
    ELSE IF signal.type = "_HydraDetectArgumentsFromDecoratorException" THEN None
    ELSE DidNotCallHydraMain

\* lines 55-58: the exception the try statement lets through, None if its
\* except clause catches the exception of exec
Propagated(signal) ==
    IF signal = None THEN DidNotCallHydraMain
    ELSE IF signal.type = "_HydraDetectArgumentsFromDecoratorException" THEN None
    ELSE signal

\* lines 62-80: the comparison with the expected values and the result
CompareAndReturn(detected, config_path, config_name, version_base) ==
    LET config_path_detected  == detected[1]
        config_name_detected  == detected[2]
        version_base_detected == detected[3]
        name == IF config_name = None THEN config_name_detected ELSE config_name
        path == IF config_path = None THEN config_path_detected ELSE config_path
        base == IF version_base = None THEN version_base_detected ELSE version_base
    IN  IF config_name # None /\ config_name # config_name_detected
        THEN Raise(ConfigError("config_name", config_name, config_name_detected))
        ELSE IF config_path # None /\ config_path # config_path_detected
        THEN Raise(ConfigError("config_path", config_path, config_path_detected))
        ELSE IF version_base # None /\ version_base # version_base_detected
        THEN Raise(ConfigError("version_base", version_base, version_base_detected))
        ELSE IF path = None THEN Raise(TypeError)
        ELSE Return(<<Path(path), name, base>>)

\* lines 27-80, called for the k-th time in a process whose hydra.main is
\* `main`: what the call delivers and the hydra.main it leaves
detect_hydra_arguments_from_main_decorator(script, config_path, config_name, version_base, main, k) ==
    LET \* line 46
        hydra_main_backup == main
        signal == exec(script)
        propagated == Propagated(signal)
    IN  IF propagated # None
        THEN [outcome |-> Raise(propagated), hydra_main |-> hydra_main_sentinel(k)]
        ELSE \* line 60
             [outcome |-> CompareAndReturn(signal.args, config_path, config_name, version_base),
              hydra_main |-> hydra_main_backup]

\* a call of detect_hydra_arguments_from_main_decorator in this process
Detect(config_path, config_name, version_base) ==
    /\ hydraCalls < MaxHydraCalls
    /\ hydraCalls' = hydraCalls + 1
    /\ LET r == detect_hydra_arguments_from_main_decorator(
                    executable, config_path, config_name, version_base,
                    hydra_main, hydraCalls + 1)
       IN  /\ hydra_main' = r.hydra_main
           /\ detectCall' = [script |-> executable,
                             config_path |-> config_path,
                             config_name |-> config_name,
                             version_base |-> version_base,
                             outcome |-> r.outcome,
                             hydra_main_before |-> hydra_main]
    /\ UNCHANGED <<executable, seml_configs, config_dir, resolveCall>>
    /\ UNCHANGED <<shimVars, queueVars, setterVars, raceVars>>

DetectInit ==
    /\ ShimIdle
    /\ QueueIdle
    /\ HydraUncalled
    /\ SetterIdle
    /\ RaceIdle
    /\ executable \in Scripts
    /\ seml_configs = <<>>
    /\ config_dir = None

DetectNext ==
    \E config_path \in ExpectedConfigPaths, config_name \in ExpectedConfigNames,
       version_base \in ExpectedVersionBases :
          Detect(config_path, config_name, version_base)

SpecDetect == DetectInit /\ [][DetectNext]_vars

-----------------------------------------------------------------------------
(* seml/hydra/config.py: config_to_hydra_overrides *)

\* A Python dict is the sequence of its <<key, value>> items in insertion
\* order.  A key is the sequence of the segments that '.' separates in it:
\* <<"a", "b">> is the key 'a.b'.
PyDict(items) == [type |-> "dict", items |-> items]

IsDict(v) == v.type = "dict"

Keys(d) == {d.items[i][1] : i \in 1..Len(d.items)}

\* d[key]
GetItem(d, key) == d.items[CHOOSE i \in 1..Len(d.items) : d.items[i][1] = key][2]

\* d[key] = value
SetItem(d, key, value) ==
    IF key \in Keys(d)
    THEN PyDict([i \in 1..Len(d.items) |->
                    IF d.items[i][1] = key THEN <<key, value>> ELSE d.items[i]])
    ELSE PyDict(Append(d.items, <<key, value>>))

\* d | other
DictUnion(d, other) ==
    LET union[i \in 0..Len(other.items)] ==
            IF i = 0 THEN d
            ELSE SetItem(union[i - 1], other.items[i][1], other.items[i][2])
    IN  union[Len(other.items)]

RECURSIVE FlattenInto(_, _, _)
\* seml.utils.flatten: the entries of a nested dict added to the flat dict acc,
\* the keys joined with '.'; a value that is not a dict is a leaf
FlattenInto(acc, items, prefix) ==
    IF items = <<>> THEN acc
    ELSE LET key   == prefix \o Head(items)[1]
             value == Head(items)[2]
             next  == IF IsDict(value) THEN FlattenInto(acc, value.items, key)
                      ELSE SetItem(acc, key, value)
         IN  FlattenInto(next, Tail(items), prefix)

flatten(d) == FlattenInto(PyDict(<<>>), d.items, <<>>)

RECURSIVE InsertPath(_, _, _)
\* seml.utils.unflatten, one entry: value put at the path of segments in the
\* nested dict d; ok is FALSE if a segment of the path is a leaf already, or
\* the path is a container already
InsertPath(d, path, value) ==
    LET k == <<Head(path)>>
    IN  IF Len(path) = 1
        THEN IF k \in Keys(d) /\ IsDict(GetItem(d, k))
             THEN [ok |-> FALSE, dict |-> d]
             ELSE [ok |-> TRUE, dict |-> SetItem(d, k, value)]
        ELSE IF k \in Keys(d) /\ ~IsDict(GetItem(d, k))
        THEN [ok |-> FALSE, dict |-> d]
        ELSE LET sub == InsertPath(IF k \in Keys(d) THEN GetItem(d, k) ELSE PyDict(<<>>),
                                   Tail(path), value)
             IN  [ok |-> sub.ok, dict |-> SetItem(d, k, sub.dict)]

\* seml.utils.unflatten: the nested dict of a flat one, ok FALSE for the
\* ConfigError of a key that is both a leaf and a container
unflatten(flat) ==
    LET nested[i \in 0..Len(flat.items)] ==
            IF i = 0 THEN [ok |-> TRUE, dict |-> PyDict(<<>>)]
            ELSE LET prev == nested[i - 1]
                     ins  == InsertPath(prev.dict, flat.items[i][1], flat.items[i][2])
                 IN  [ok |-> prev.ok /\ ins.ok, dict |-> ins.dict]
    IN  nested[Len(flat.items)]

\* SETTINGS.HYDRA_GROUP_ARGUMENTS_PREFIX
HYDRA_GROUP_ARGUMENTS_PREFIX == "+group"

\* str(value) of a scalar
str(value) == IF value.type = "int" THEN ToString(value.value) ELSE value.value

\* the string f'{key}={value}': the text of the key, '=' and the text of the value
Override(key, text) == [type |-> "str", before_equals |-> key, after_equals |-> text]

\* line 149: f'{PREFIX}.' in key, for keys of which no other segment contains
\* the text of the prefix
IsGroupKey(key) == \E i \in 1..(Len(key) - 1) : key[i] = HYDRA_GROUP_ARGUMENTS_PREFIX

\* line 151: key.replace(f'{PREFIX}.', '')
StripGroupPrefix(key) ==
    LET kept[i \in 0..Len(key)] ==
            IF i = 0 THEN <<>>
            ELSE IF i < Len(key) /\ key[i] = HYDRA_GROUP_ARGUMENTS_PREFIX
                 THEN kept[i - 1]
                 ELSE Append(kept[i - 1], key[i])
    IN  kept[Len(key)]

\* lines 148-152 with an else before line 152 and the stripped key at line 150
config_to_hydra_overrides_partitioning(config) ==
    LET flat == flatten(config).items
        loop[i \in 0..Len(flat)] ==
            IF i = 0 THEN [result |-> <<>>, result_group_arguments |-> PyDict(<<>>)]
            ELSE LET prev  == loop[i - 1]
                     key   == flat[i][1]
                     value == flat[i][2]
                 IN  IF IsGroupKey(key)
                     THEN [result |-> prev.result,
                           result_group_arguments |->
                               SetItem(prev.result_group_arguments,
                                       StripGroupPrefix(key), value)]
                     ELSE [result |-> Append(prev.result, Override(key, str(value))),
                           result_group_arguments |-> prev.result_group_arguments]
    IN  loop[Len(flat)]

\* lines 136-153
config_to_hydra_overrides(config) ==
    LET flat == flatten(config).items
        loop[i \in 0..Len(flat)] ==
            IF i = 0 THEN [result |-> <<>>, result_group_arguments |-> PyDict(<<>>)]
            ELSE LET prev  == loop[i - 1]
                     key   == flat[i][1]
                     value == flat[i][2]
                 IN  IF IsGroupKey(key)
                     THEN [result |-> Append(prev.result,
                                             Override(StripGroupPrefix(key), str(value))),
                           result_group_arguments |->
                               SetItem(prev.result_group_arguments, key, value)]
                     ELSE [result |-> Append(prev.result, Override(key, str(value))),
                           result_group_arguments |-> prev.result_group_arguments]
    IN  loop[Len(flat)]

-----------------------------------------------------------------------------
(* seml/hydra/config.py: resolve_hydra_configs and _resolve_hydra_configs *)

Dict1(k1, v1) == PyDict(<< <<k1, v1>> >>)

Dict2(k1, v1, k2, v2) == PyDict(<< <<k1, v1>>, <<k2, v2>> >>)

\* the configurations resolve_hydra_configs is given: {'a': {'b': 1}},
\* {'a': {'b': 2}}, {'a': {'b': 1}, '+group': {'model': 'resnet'}} and
\* {'opt': {'+group': 'x'}, 'a': {'b': '1'}}
SemlConfigs ==
    {Dict1(<<"a">>, Dict1(<<"b">>, PyInt(1))),
     Dict1(<<"a">>, Dict1(<<"b">>, PyInt(2))),
     Dict2(<<"a">>, Dict1(<<"b">>, PyInt(1)),
           <<HYDRA_GROUP_ARGUMENTS_PREFIX>>, Dict1(<<"model">>, PyStr("resnet"))),
     Dict2(<<"opt">>, Dict1(<<HYDRA_GROUP_ARGUMENTS_PREFIX>>, PyStr("x")),
           <<"a">>, Dict1(<<"b">>, PyStr("1")))}

\* OmegaConf's mandatory missing value '???' and an interpolation '${path}'
MISSING == [type |-> "missing"]

Interpolation(path) == [type |-> "interpolation", of |-> path]

\* hydra configuration directories: the flat form of the primary
\* configuration and the options of the configuration groups
ConfigDirs ==
    {[tree |-> PyDict(<< <<<<"a", "b">>, PyInt(0)>>,
                         <<<<"a", "c">>, Interpolation(<<"a", "b">>)>>,
                         <<<<"seed">>, PyInt(7)>>,
                         <<<<"opt", HYDRA_GROUP_ARGUMENTS_PREFIX>>, PyStr("y")>> >>),
      groups |-> Dict1(<<"model">>,
                       Dict1(<<"resnet">>, Dict1(<<"model", "layers">>, PyInt(18))))],
     [tree |-> PyDict(<< <<<<"a", "b">>, PyInt(0)>>,
                         <<<<"data">>, MISSING>> >>),
      groups |-> PyDict(<<>>)]}

\* the value hydra's override grammar reads from the text after '='
ParseValue(text) ==
    IF \E n \in 0..9 : ToString(n) = text
    THEN PyInt(CHOOSE n \in 0..9 : ToString(n) = text)
    ELSE PyStr(text)

\* line 95, hydra.compose: the primary configuration with the overrides
\* applied; an override of a configuration group selects one of its options, an
\* override of a key sets its value; ok is FALSE if compose raises
compose(dir, overrides) ==
    LET applied[i \in 0..Len(overrides)] ==
            IF i = 0 THEN [ok |-> TRUE, tree |-> dir.tree]
            ELSE LET prev == applied[i - 1]
                     key  == overrides[i].before_equals
                     text == overrides[i].after_equals
                 IN  IF key \in Keys(dir.groups)
                     THEN IF <<text>> \in Keys(GetItem(dir.groups, key))
                          THEN [ok |-> prev.ok,
                                tree |-> DictUnion(prev.tree,
                                             GetItem(GetItem(dir.groups, key), <<text>>))]
                          ELSE [ok |-> FALSE, tree |-> prev.tree]
                     ELSE IF key \in Keys(prev.tree)
                     THEN [ok |-> prev.ok, tree |-> SetItem(prev.tree, key, ParseValue(text))]
                     ELSE [ok |-> FALSE, tree |-> prev.tree]
    IN  applied[Len(overrides)]

\* line 97, OmegaConf.to_container(cfg, resolve=True, throw_on_missing=True):
\* the nested container with the interpolations resolved; ok is FALSE if a
\* value is missing
to_container(tree) ==
    LET resolved == PyDict([i \in 1..Len(tree.items) |->
                       IF tree.items[i][2].type = "interpolation"
                       THEN <<tree.items[i][1], GetItem(tree, tree.items[i][2].of)>>
                       ELSE tree.items[i]])
    IN  [ok |-> \A i \in 1..Len(tree.items) : tree.items[i][2] # MISSING,
         cfg |-> unflatten(resolved).dict]

\* line 94
flat_keys(overrides) == [i \in 1..Len(overrides) |-> overrides[i].before_equals]

\* line 101 without its condition
Unrestricted(flat, keys) == flat

\* line 101: {k: v for k, v in flat.items() if k in flat_keys}
Restricted(flat, keys) ==
    LET kept[i \in 0..Len(flat.items)] ==
            IF i = 0 THEN <<>>
            ELSE IF PyIn(flat.items[i][1], keys)
                 THEN Append(kept[i - 1], flat.items[i])
                 ELSE kept[i - 1]
    IN  PyDict(kept[Len(flat.items)])


\* lines 96-101: the flat form of the container of what compose returned
ResolvedFlat(composed) ==
    LET container == to_container(composed.tree)
    IN  [ok |-> composed.ok /\ container.ok, flat |-> flatten(container.cfg)]

\* lines 101-102: the configuration the pass appends
RestrictedConfig(resolved, overrides) ==
    LET nested == unflatten(Restricted(resolved.flat, flat_keys(overrides)))
    IN  [ok |-> resolved.ok /\ nested.ok,
         composed |-> resolved.flat,
         config |-> nested.dict]

\* lines 94-102, one pass of the loop: ok is FALSE if the pass raises, composed
\* is the flat form of what hydra resolved, config what the pass appends
ResolveOne(dir, overrides) ==
    RestrictedConfig(ResolvedFlat(compose(dir, overrides)), overrides)

\* lines 90 and 105: str(Path(executable).parent / config_path)
JoinedPath(config_path) ==
    [type |-> "str", joined |-> <<"Path(executable).parent", config_path.path>>]

\* lines 104-105: the dict `result` as the auxiliary process leaves it.  The
\* process ends before line 104 if the detection or a pass of the loop
\* raises, or if it is killed.
PopulatedResult(detected, passes, killed) ==
    IF /\ detected.kind = "return"
       /\ \A i \in 1..Len(passes) : passes[i].ok
       /\ ~killed
    THEN ("configs" :> [i \in 1..Len(passes) |-> passes[i].config]
          @@ "config_path" :> JoinedPath(detected.value[1]))
    ELSE EmptyDict

\* lines 82-105 in the auxiliary process: the passes of its loop and the dict
\* `result` as it leaves it
_resolve_hydra_configs(script, dir, overrides_per_config, killed) ==
    LET passes == [i \in 1..Len(overrides_per_config) |->
                      ResolveOne(dir, overrides_per_config[i])]
    IN  [passes |-> passes,
         result |-> PopulatedResult(
                        detect_hydra_arguments_from_main_decorator(
                            script, None, None, None, hydra_main_original, 1).outcome,
                        passes, killed)]

ValueError == [type |-> "ValueError", message |-> "not enough values to unpack"]

KeyError(key) == [type |-> "KeyError", key |-> key]

\* line 132: zip stops with the shorter of its arguments
Shorter(a, b) == IF Len(a) <= Len(b) THEN Len(a) ELSE Len(b)

\* lines 125 and 132-133: what the call delivers
Delivered(configs, group_overrides_per_config, ret_list) ==
    IF Len(configs) = 0
    THEN \* line 125: zip of nothing yields nothing to unpack
         Raise(ValueError)
    ELSE IF "configs" \notin DOMAIN ret_list
    THEN Raise(KeyError("configs"))
    ELSE Return(<<[i \in 1..Shorter(ret_list["configs"], group_overrides_per_config) |->
                      DictUnion(ret_list["configs"][i], group_overrides_per_config[i])],
                  ret_list["config_path"]>>)

\* lines 127-133: the call once line 125 has translated the configurations
\* and the auxiliary process has ended
Joined(script, configs, killed, translated, proc) ==
    [configs |-> configs,
     script |-> script,
     killed |-> killed,
     translated |-> translated,
     passes |-> proc.passes,
     ret_list |-> proc.result,
     outcome |-> Delivered(configs,
                           [i \in 1..Len(configs) |-> translated[i].result_group_arguments],
                           proc.result)]

\* lines 127-131: the auxiliary process runs _resolve_hydra_configs
Started(script, dir, configs, killed, translated) ==
    Joined(script, configs, killed, translated,
           _resolve_hydra_configs(script, dir,
                                  [i \in 1..Len(configs) |-> translated[i].result],
                                  killed))

\* lines 107-133: the arguments of the call, the translations of line 125,
\* what the auxiliary process did and what the call delivers
resolve_hydra_configs(script, dir, configs, killed) ==
    Started(script, dir, configs, killed,
            [i \in 1..Len(configs) |-> config_to_hydra_overrides(configs[i])])

\* a call of resolve_hydra_configs; the auxiliary process may be killed
Resolve(killed) ==
    /\ resolveCall' = resolve_hydra_configs(executable, config_dir, seml_configs, killed)
    /\ UNCHANGED <<executable, seml_configs, config_dir, hydra_main, hydraCalls, detectCall>>
    /\ UNCHANGED <<shimVars, queueVars, setterVars, raceVars>>

ResolveInit ==
    /\ ShimIdle
    /\ QueueIdle
    /\ HydraUncalled
    /\ SetterIdle
    /\ RaceIdle
    /\ executable \in Scripts
    /\ seml_configs \in SeqsUpTo(SemlConfigs, MaxConfigs)
    /\ config_dir \in ConfigDirs

ResolveNext == \E killed \in BOOLEAN : Resolve(killed)

SpecResolve == ResolveInit /\ [][ResolveNext]_vars

-----------------------------------------------------------------------------
(* seml/hydra/utils.py: experiment_set_hydra_config; seml/wandb.py:          *)
(* experiment_set_wandb                                                     *)

DbCollectionNames == {None, PyStr("coll"), PyStr("other_coll")}

ExperimentIds == {None, PyInt(1), PyInt(2)}

\* the hydra configuration handed over: OmegaConf.to_container(resolve=True)
\* yields its container, or raises for an interpolation that does not resolve
HydraConfigs ==
    {[type |-> "DictConfig", resolves |-> TRUE], [type |-> "DictConfig", resolves |-> FALSE]}

\* the attributes of a wandb run that the set_* flags select (lines 26-53)
WandbAttributes ==
    {"dir", "entity", "group", "id", "mode", "name", "notes", "path", "project",
     "resumed", "start_time", "sweep_id", "tags", "url"}

\* the active wandb run
WandbRuns == {None, [type |-> "Run", name |-> "run-1"]}

\* the flags set_* of a call, as the set of the attributes whose flag is True
FlagChoices == {{}, {"id"}, WandbAttributes}

\* what update_one reports
UpdateResults ==
    {[matched_count |-> m, modified_count |-> n] : m \in 0..MaxCount, n \in 0..MaxCount}

\* lines 153 / 20 with `and` for `or`
BothIdentifiersMissing(db_collection_name, experiment_id) ==
    db_collection_name = None /\ experiment_id = None

\* utils.py line 153, wandb.py line 20
IdentifierMissing(db_collection_name, experiment_id) ==
    db_collection_name = None \/ experiment_id = None

\* the call that returns at utils.py line 155, wandb.py line 22
WarnedAndReturned(function, given, db_collection_name, experiment_id) ==
    [function |-> function,
     given |-> given,
     db_collection_name |-> db_collection_name,
     experiment_id |-> experiment_id,
     warnings |-> 1,
     errors |-> 0,
     get_collection_calls |-> <<>>,
     update_one_calls |-> <<>>,
     update_result |-> None,
     outcome |-> Return(None)]

\* the call that leaves before it reaches the store: by an exception, or with
\* nothing to update
LeftBeforeStore(function, given, db_collection_name, experiment_id, delivered) ==
    [function |-> function,
     given |-> given,
     db_collection_name |-> db_collection_name,
     experiment_id |-> experiment_id,
     warnings |-> 0,
     errors |-> 0,
     get_collection_calls |-> <<>>,
     update_one_calls |-> <<>>,
     update_result |-> None,
     outcome |-> delivered]

\* utils.py lines 166-172, wandb.py lines 57-63, with a raise for zero matches
AfterUpdateRaising(update_result) ==
    IF update_result.matched_count = 0
    THEN Raise([type |-> "RuntimeError", message |-> "no experiment matched"])
    ELSE Return(None)

\* utils.py lines 166-172, wandb.py lines 57-63: the three tests only log
AfterUpdate(update_result) == Return(None)

\* utils.py lines 164-172, wandb.py lines 55-63: the store is updated and the
\* anomalies of the update_result are logged
Updated(function, given, db_collection_name, experiment_id, updates, update_result) ==
    [function |-> function,
     given |-> given,
     db_collection_name |-> db_collection_name,
     experiment_id |-> experiment_id,
     warnings |-> IF update_result.matched_count # update_result.modified_count THEN 1 ELSE 0,
     errors |-> (IF update_result.matched_count = 0 THEN 1 ELSE 0)
                + (IF update_result.modified_count # 1 THEN 1 ELSE 0),
     get_collection_calls |-> <<db_collection_name>>,
     update_one_calls |-> <<[_id |-> experiment_id.value, set |-> updates]>>,
     update_result |-> update_result,
     outcome |-> AfterUpdate(update_result)]

InterpolationError == [type |-> "InterpolationResolutionError"]

\* utils.py lines 144-172
experiment_set_hydra_config(config, db_collection_name, experiment_id, update_result) ==
    IF IdentifierMissing(db_collection_name, experiment_id)
    THEN WarnedAndReturned("experiment_set_hydra_config", config, db_collection_name, experiment_id)
    ELSE IF ~config.resolves
    THEN LeftBeforeStore("experiment_set_hydra_config", config, db_collection_name, experiment_id,
                         Raise(InterpolationError))
    ELSE Updated("experiment_set_hydra_config", config, db_collection_name, experiment_id,
                 {"hydra_config"}, update_result)

RunIsNone == [type |-> "RuntimeError", message |-> "run is None"]

\* wandb.py lines 6-63; the keys of `updates` are the selected attributes
\* behind the prefix
experiment_set_wandb(wandb_run, db_collection_name, experiment_id, flags, update_result) ==
    IF IdentifierMissing(db_collection_name, experiment_id)
    THEN WarnedAndReturned("experiment_set_wandb", wandb_run, db_collection_name, experiment_id)
    ELSE IF wandb_run = None
    THEN LeftBeforeStore("experiment_set_wandb", wandb_run, db_collection_name, experiment_id,
                         Raise(RunIsNone))
    ELSE IF flags = {}
    THEN LeftBeforeStore("experiment_set_wandb", wandb_run, db_collection_name, experiment_id,
                         Return(None))
    ELSE Updated("experiment_set_wandb", wandb_run, db_collection_name, experiment_id, flags, update_result)

\* a call of experiment_set_hydra_config; update_one reports `update_result`
SetHydraConfig(config, db_collection_name, experiment_id, update_result) ==
    /\ setterCall' = experiment_set_hydra_config(config, db_collection_name,
                                                 experiment_id, update_result)
    /\ UNCHANGED <<shimVars, queueVars, hydraVars, raceVars>>

\* a call of experiment_set_wandb; update_one reports `update_result`
SetWandb(wandb_run, db_collection_name, experiment_id, flags, update_result) ==
    /\ setterCall' = experiment_set_wandb(wandb_run, db_collection_name, experiment_id,
                                          flags, update_result)
    /\ UNCHANGED <<shimVars, queueVars, hydraVars, raceVars>>

SetterInit == ShimIdle /\ QueueIdle /\ HydraIdle /\ SetterIdle /\ RaceIdle

SetterNext ==
    \E db_collection_name \in DbCollectionNames, experiment_id \in ExperimentIds,
       update_result \in UpdateResults :
          \/ \E config \in HydraConfigs :
                SetHydraConfig(config, db_collection_name, experiment_id, update_result)
          \/ \E wandb_run \in WandbRuns, flags \in FlagChoices :
                SetWandb(wandb_run, db_collection_name, experiment_id, flags, update_result)

SpecSetter == SetterInit /\ [][SetterNext]_vars

-----------------------------------------------------------------------------
(* seml/queuing.py: two queue_configs calls at work on one collection *)

\* lines 81-84 and 87-90: 1 for an empty collection, the maximum + 1 otherwise
NextAfter(maximum) ==
    IF maximum = None THEN PyInt(1) ELSE PyInt(maximum.value + 1)

\* lines 96-105 (the fields seml, slurm, git and queue_time are left out)
DbDicts(configs, first_id, batch) ==
    [ix \in 1..Len(configs) |->
        [_id |-> first_id.value + (ix - 1),
         batch_id |-> batch.value,
         status |-> "QUEUED",
         config |-> configs[ix].d,
         config_hash |-> make_hash(configs[ix].d)]]

\* the positions of the documents whose _id the collection already holds
DuplicateIds(coll, docs) ==
    {ix \in 1..Len(docs) : \E k \in 1..Len(coll) : coll[k]._id = docs[ix]._id}

\* pymongo's BulkWriteError for a duplicate _id
BulkWriteError == "BulkWriteError"

Least(S) == CHOOSE x \in S : \A y \in S : x <= y

\* collection.insert_many(docs), ordered: the documents are inserted one after
\* the other up to the first whose _id is taken
insert_many(coll, docs) ==
    IF DuplicateIds(coll, docs) = {}
    THEN [collection |-> coll \o docs, outcome |-> Return(None)]
    ELSE [collection |-> coll \o SubSeq(docs, 1, Least(DuplicateIds(coll, docs)) - 1),
          outcome |-> Raise(BulkWriteError)]

\* caller p enters queue_configs with its configurations: line 77
RaceCall(p, configs) ==
    /\ racePc[p] = "idle"
    /\ raceConfigs' = [raceConfigs EXCEPT ![p] = configs]
    /\ IF Len(configs) = 0
       THEN /\ racePc' = [racePc EXCEPT ![p] = "done"]
            /\ raceOutcome' = [raceOutcome EXCEPT ![p] = Return(None)]
       ELSE /\ racePc' = [racePc EXCEPT ![p] = "start_id"]
            /\ UNCHANGED raceOutcome
    /\ UNCHANGED <<local_start_id, local_batch_id>>
    /\ UNCHANGED <<shimVars, queueVars, hydraVars, setterVars>>

\* lines 80-84
ReadMaxId(p) ==
    /\ racePc[p] = "start_id"
    /\ local_start_id' =
          [local_start_id EXCEPT ![p] = NextAfter(get_max_in_collection(collection, "_id"))]
    /\ racePc' = [racePc EXCEPT ![p] = "batch_id"]
    /\ UNCHANGED <<raceConfigs, local_batch_id, raceOutcome>>
    /\ UNCHANGED <<shimVars, queueVars, hydraVars, setterVars>>

\* lines 86-90
ReadMaxBatchId(p) ==
    /\ racePc[p] = "batch_id"
    /\ local_batch_id' =
          [local_batch_id EXCEPT ![p] = NextAfter(get_max_in_collection(collection, "batch_id"))]
    /\ racePc' = [racePc EXCEPT ![p] = "insert_many"]
    /\ UNCHANGED <<raceConfigs, local_start_id, raceOutcome>>
    /\ UNCHANGED <<shimVars, queueVars, hydraVars, setterVars>>

\* lines 96-107
InsertMany(p) ==
    /\ racePc[p] = "insert_many"
    /\ collection' = insert_many(collection,
                        DbDicts(raceConfigs[p], local_start_id[p], local_batch_id[p])).collection
    /\ raceOutcome' = [raceOutcome EXCEPT ![p] =
                        insert_many(collection,
                           DbDicts(raceConfigs[p], local_start_id[p], local_batch_id[p])).outcome]
    /\ racePc' = [racePc EXCEPT ![p] = "done"]
    /\ UNCHANGED <<raceConfigs, local_start_id, local_batch_id>>
    /\ UNCHANGED <<SLURM_DEFAULT, queueCalls, lastCall, allChecked>>
    /\ UNCHANGED <<shimVars, hydraVars, setterVars>>

\* the lists of configurations queue_configs can be given, each configuration
\* with its position in the list
RaceBatches ==
    {[i \in 1..Len(g) |-> [id |-> i, d |-> g[i]]] :
        g \in SeqsUpTo(GeneratedConfigs, MaxBatch)}

RaceInit == ShimIdle /\ QueueIdle /\ HydraIdle /\ SetterIdle /\ RaceIdle

RaceNext ==
    \E p \in Callers :
       \/ \E configs \in RaceBatches : RaceCall(p, configs)
       \/ ReadMaxId(p)
       \/ ReadMaxBatchId(p)
       \/ InsertMany(p)

SpecRace == RaceInit /\ [][RaceNext]_vars

-----------------------------------------------------------------------------
(* Properties of the functions of seml/hydra/config.py *)

\* C14: detect_hydra_arguments_from_main_decorator leaves hydra.main bound to
\* the function it was bound to at the call, whatever the outcome: detection,
\* a ConfigError, the script ending without a call of hydra.main, or the
\* script raising an exception of its own.
C14_HydraMainRestored ==
    detectCall # None => hydra_main = detectCall.hydra_main_before

NoMismatch ==
    /\ detectCall.config_name \in {None, detectCall.script.args[2]}
    /\ detectCall.config_path \in {None, detectCall.script.args[1]}
    /\ detectCall.version_base \in {None, detectCall.script.args[3]}

\* the value a call of hydra.main with no mismatch is claimed to deliver
DiscoveredTriple ==
    <<IF detectCall.script.args[1] = None THEN None ELSE Path(detectCall.script.args[1]),
      detectCall.script.args[2], detectCall.script.args[3]>>

\* C15: when the script calls hydra.main, an expected value that is not None
\* and differs from the one passed to hydra.main makes the call raise a
\* ConfigError naming both values; with every expected value None or equal to
\* the value passed, the call returns the values passed to hydra.main.
C15_MismatchOrDiscovered ==
    (detectCall # None /\ detectCall.script.kind = "calls_hydra_main") =>
        IF NoMismatch
        THEN /\ detectCall.outcome.kind = "return"
             /\ detectCall.outcome.value = DiscoveredTriple
        ELSE /\ detectCall.outcome.kind = "raise"
             /\ detectCall.outcome.value.type = "ConfigError"
             /\ \E field \in 1..3 :
                   LET expected == <<detectCall.config_path, detectCall.config_name,
                                     detectCall.version_base>>[field]
                       name == <<"config_path", "config_name", "version_base">>[field]
                   IN  /\ expected # None
                       /\ expected # detectCall.script.args[field]
                       /\ detectCall.outcome.value =
                             ConfigError(name, expected, detectCall.script.args[field])

\* C16 (as claimed): when the script ends or raises an exception of its own
\* before it calls hydra.main, the call raises the RuntimeError 'did not call
\* hydra.main' and returns nothing.
C16_NoEntryPointIsRuntimeError ==
    (detectCall # None /\ detectCall.script.kind # "calls_hydra_main") =>
        detectCall.outcome = Raise(DidNotCallHydraMain)

\* C16 (amended): when the script ends without a call of hydra.main, the call
\* raises the RuntimeError 'did not call hydra.main'; when the script raises
\* an exception of its own before it calls hydra.main, the call lets that
\* exception through; in neither case does it return a value.
C16_RuntimeErrorOrScriptException ==
    (detectCall # None /\ detectCall.script.kind # "calls_hydra_main") =>
        /\ detectCall.outcome.kind = "raise"
        /\ detectCall.script.kind = "finishes" =>
              detectCall.outcome.value = DidNotCallHydraMain
        /\ detectCall.script.kind = "raises" =>
              detectCall.outcome.value = ScriptException

\* a call for a script that raised an exception of its own let it through
C16_Witness ==
    /\ detectCall # None
    /\ detectCall.script.kind = "raises"
    /\ detectCall.outcome = Raise(ScriptException)

\* the auxiliary process of the latest resolve_hydra_configs call populated `result`
Populated == "configs" \in DOMAIN resolveCall.ret_list

\* the script and the configuration directory let every configuration of the
\* batch be resolved, and the auxiliary process is left alone
Resolvable ==
    /\ resolveCall.script.kind = "calls_hydra_main"
    /\ resolveCall.script.args[1] # None
    /\ \A i \in 1..Len(resolveCall.passes) : resolveCall.passes[i].ok
    /\ ~resolveCall.killed

\* c is the resolution of the i-th configuration of the batch: its entries
\* with a group key as they were given, its other entries with the value hydra
\* resolved for the i-th override set, and nothing that was not asked for
IsResolutionOf(c, i) ==
    LET given    == flatten(resolveCall.configs[i])
        composed == resolveCall.passes[i].composed
        flat     == flatten(c)
    IN  /\ \A j \in 1..Len(given.items) :
               LET k == given.items[j][1]
               IN  IF IsGroupKey(k)
                   THEN k \in Keys(flat) /\ GetItem(flat, k) = given.items[j][2]
                   ELSE k \in Keys(composed) =>
                           k \in Keys(flat) /\ GetItem(flat, k) = GetItem(composed, k)
        /\ \A k \in Keys(flat) :
               \/ k \in Keys(given)
               \/ \E g \in Keys(given) : IsGroupKey(g) /\ k = StripGroupPrefix(g)

\* C17: resolve_hydra_configs returns one nested configuration for each
\* configuration of the batch, in the order of the batch, the i-th of them the
\* resolution of the i-th override set joined with the i-th group overrides,
\* for a batch of every length.
C17_OneResolutionPerInput ==
    (resolveCall # None /\ Resolvable) =>
        /\ resolveCall.outcome.kind = "return"
        /\ Len(resolveCall.outcome.value[1]) = Len(resolveCall.configs)
        /\ \A i \in 1..Len(resolveCall.configs) :
              IsResolutionOf(resolveCall.outcome.value[1][i], i)

\* the keys before '=' of the i-th override set
Whitelist(i) ==
    {resolveCall.translated[i].result[j].before_equals :
        j \in 1..Len(resolveCall.translated[i].result)}

\* C18: the configuration _resolve_hydra_configs produces for an override set
\* holds, of the flat keys of the tree hydra resolved, exactly those that are
\* the key part of an override of the set, with the resolved values: no other
\* key of the tree is kept and no such key of the tree is dropped.
C18_ExactlyWhitelisted ==
    (resolveCall # None /\ Populated) =>
        \A i \in 1..Len(resolveCall.passes) :
           LET produced == flatten(resolveCall.ret_list["configs"][i])
               composed == resolveCall.passes[i].composed
           IN  /\ Keys(produced) = Keys(composed) \cap Whitelist(i)
               /\ \A k \in Keys(produced) : GetItem(produced, k) = GetItem(composed, k)

\* a produced configuration kept a key of the override set and dropped
\* another key of the resolved tree
C18_Witness ==
    /\ resolveCall # None
    /\ Populated
    /\ \E i \in 1..Len(resolveCall.passes) :
          /\ Keys(flatten(resolveCall.ret_list["configs"][i])) # {}
          /\ Keys(resolveCall.passes[i].composed) \ Whitelist(i) # {}

ResolutionProcessFailed == [type |-> "RuntimeError", message |-> "resolution process failed"]

\* C19: when the auxiliary process ends without having populated `result`,
\* resolve_hydra_configs raises the error 'resolution process failed' and
\* returns no list of configurations.
C19_ExplicitFailure ==
    (resolveCall # None /\ Len(resolveCall.configs) >= 1 /\ ~Populated) =>
        resolveCall.outcome = Raise(ResolutionProcessFailed)

\* a key with the group marker among its segments, and the key without them
HasMarkerSegment(key) == \E i \in 1..Len(key) : key[i] = HYDRA_GROUP_ARGUMENTS_PREFIX

WithoutMarkerSegments(key) == SelectSeq(key, LAMBDA seg : seg # HYDRA_GROUP_ARGUMENTS_PREFIX)

-----------------------------------------------------------------------------
(* Properties of experiment_set_hydra_config and experiment_set_wandb *)

\* C21: a call of experiment_set_hydra_config or experiment_set_wandb with
\* db_collection_name None or experiment_id None logs a warning and returns,
\* and calls neither get_collection nor update_one.
C21_NoOpWithoutIdentifiers ==
    (/\ setterCall # None
     /\ (setterCall.db_collection_name = None \/ setterCall.experiment_id = None)) =>
        /\ setterCall.outcome = Return(None)
        /\ setterCall.warnings >= 1
        /\ setterCall.get_collection_calls = <<>>
        /\ setterCall.update_one_calls = <<>>

\* a call with a collection name and no experiment id returned
C21_Witness ==
    /\ setterCall # None
    /\ setterCall.db_collection_name # None
    /\ setterCall.experiment_id = None
    /\ setterCall.function = "experiment_set_wandb"
    /\ setterCall.outcome = Return(None)

\* C22: whatever matched_count and modified_count update_one reports, the
\* call of experiment_set_hydra_config or experiment_set_wandb returns; the
\* anomaly is logged and no exception leaves the call.
C22_UpdateAnomaliesOnlyLogged ==
    (setterCall # None /\ setterCall.update_one_calls # <<>>) =>
        /\ setterCall.outcome = Return(None)
        /\ (\/ setterCall.update_result.matched_count # setterCall.update_result.modified_count
            \/ setterCall.update_result.matched_count = 0
            \/ setterCall.update_result.modified_count # 1)
              => setterCall.warnings + setterCall.errors >= 1

\* update_one matched nothing and the call returned with the anomaly logged
C22_Witness ==
    /\ setterCall # None
    /\ setterCall.update_one_calls # <<>>
    /\ setterCall.update_result.matched_count = 0
    /\ setterCall.update_result.modified_count = MaxCount
    /\ setterCall.errors = 2
    /\ setterCall.outcome = Return(None)


-----------------------------------------------------------------------------
(* Properties of the default reporting observer of seml_observe_hydra *)

HasMongoObserver(obs) ==
    \E i \in 1..Len(obs) : isinstance_MongoObserver(obs[i])

\* C23: whenever events are dispatched in an observed invocation the observer
\* list holds a MongoObserver; an invocation creates a default one if and only
\* if none of the observers registered at its entry is a MongoObserver; and
\* over all invocations at most one default observer is ever added.
C23_DefaultObserverEnsured ==
    /\ (ObservedInvocation /\ calls # <<>>) =>
           HasMongoObserver(ObserversOrEmpty(observers))
    /\ ObservedInvocation =>
           ((created # atEntry.created)
               <=> ~HasMongoObserver(ObserversOrEmpty(atEntry.observers)))
    /\ Len(created) <= 1

C23_Witness ==
    /\ invocations = 2
    /\ ObservedInvocation
    /\ calls # <<>>
    /\ Len(created) = 1
    /\ atEntry.created = created
    /\ ~HasMongoObserver(ObserversOrEmpty(argument))

\* C24: every event of an observed invocation that reaches a default
\* reporting observer reaches one constructed from that invocation's
\* cfg.seml.db_collection and cfg.seml.overwrite.
C24_DefaultObserverOfThisRun ==
    ObservedInvocation =>
        \A i \in 1..Len(calls) :
           calls[i].observer.name = "default" =>
              /\ calls[i].observer.db_collection = cfg.seml.db_collection
              /\ calls[i].observer.overwrite = cfg.seml.overwrite


-----------------------------------------------------------------------------
(* Further properties of the queueing pipeline *)

\* C25: queue_experiments leaves SETTINGS.SLURM_DEFAULT as seml.settings
\* defines it, and every call of a process runs to completion with the
\* default options of the first call.
C25_SlurmDefaultUnchanged ==
    /\ SLURM_DEFAULT = SLURM_DEFAULT_Settings
    /\ lastCall # None => lastCall.raised = "none"

\* the documents the last queue_experiments call inserted
InsertedByLastCall ==
    SubSeq(collection, Len(lastCall.before) + 1, Len(collection))

\* C26: whatever force_duplicates and no_hash are, each document a
\* queue_experiments call inserts stores in 'config' a configuration as
\* generate_configs produced it and in 'config_hash' the make_hash of that
\* generated configuration.
C26_StoredConfigIsGenerated ==
    (lastCall # None /\ lastCall.raised = "none") =>
        \A i \in 1..Len(InsertedByLastCall) :
           \E j \in 1..Len(lastCall.generated) :
              /\ InsertedByLastCall[i].config = lastCall.generated[j]
              /\ InsertedByLastCall[i].config_hash = make_hash(lastCall.generated[j])


-----------------------------------------------------------------------------
(* Properties of concurrent queue_configs calls *)

\* the _id values caller p computed for its documents
IdRange(p) ==
    {local_start_id[p].value + (ix - 1) : ix \in 1..Len(raceConfigs[p])}

\* caller p has computed its _id range and its batch_id
Computed(p) == racePc[p] \in {"insert_many", "done"} /\ Len(raceConfigs[p]) > 0

\* C27: in every interleaving of two queue_configs calls on one collection the
\* _id ranges the calls compute are disjoint and so are their batch_ids, and
\* no insert_many is rejected for a duplicate _id.
C27_DisjointIdsAndBatches ==
    /\ \A p \in Callers : raceOutcome[p].kind # "raise"
    /\ \A p, q \in Callers :
          (p # q /\ Computed(p) /\ Computed(q)) =>
              /\ IdRange(p) \cap IdRange(q) = {}
              /\ local_batch_id[p] # local_batch_id[q]

====
